---- MODULE Spec2Model ----
(***************************************************************************)
(* Model of package deps (src/dependency.go): a Root, the tree of          *)
(* Dependency nodes hanging off it, and the goroutines that call into      *)
(* them.  Every exported method is translated into its atomic steps: a     *)
(* step ends where the code touches shared state (a channel, a WaitGroup,  *)
(* a sync.Once, a mutex) or blocks.  The callers are the most general      *)
(* client: any method may be called on any created node at any time.       *)
(***************************************************************************)
EXTENDS Integers, Sequences, FiniteSets, TLC

\* ------------------------------------------------------------------ bounds
MaxNodes == 2       \* Dependency objects that Dependent() may create
MaxCalls == 2       \* Stop/StopImmediately calls made on one Dependency
MaxAborts == 2      \* calls of (*Root).Abort
MaxChans == 2       \* channels that wait(&d.wg) may create for one Dependency

\* ------------------------------------------------------------------ values
RootId == 0
Nodes == 1..MaxNodes
Owners == 0..MaxNodes            \* owners of a sync.WaitGroup: Root and nodes
NotCreated == -1
Slots == 1..MaxCalls
AbortCalls == 1..MaxAborts

Tokens == {"ctxDeadline", "ctxCancel"}   \* context.Context values given to Abort
NilCtx == "nilCtx"                       \* zero value of Root.abortCtx
NoErr == "nil"
\* ctx.Err() of a token once it is done
TokenCause(t) == IF t = "ctxDeadline" THEN "DeadlineExceeded" ELSE "Canceled"

\* abortOnError *error: a nil pointer, a pointer to a nil error, a pointer to an error
ErrArgs == {"nilPtr", "ptrToNil", "ptrToErr"}
Deref(arg) == IF arg = "ptrToErr" THEN "err" ELSE NoErr

\* results of (*Root).Abort
NoResult == [kind |-> "none", wraps |-> NoErr]
ResNil == [kind |-> "nil", wraps |-> NoErr]
ResAlreadyAborted == [kind |-> "alreadyAborted", wraps |-> NoErr]
ResTimeout(cause) == [kind |-> "timeout", wraps |-> cause]

IdleCall == [pc |-> "idle", ch |-> 0, kids |-> {}]
ReturnedCall == [pc |-> "returned", ch |-> 0, kids |-> {}]

VARIABLES
    parent,          \* parent[n]: the owner whose WaitGroup n's stop closure decrements
    wg,              \* wg[o]: counter of Root.wg (o = 0) and of Dependency.wg
    dAborted,        \* dAborted[n]: the channel in Dependency.aborted, "none" before n exists
    once,            \* once[n]: the sync.Once of n's stop closure has run
    wait,            \* wait[n]: Dependency.wait, 0 = nil, else an index into chans[n]
    chans,           \* chans[n]: the done channels made by wait(&d.wg), "open"/"closed"
    held,            \* held[n]: the channels Wait() has returned to its callers
    calls,           \* calls[n][k]: the k-th Stop/StopImmediately call on n: where it is, the
                     \* channel it blocks on, and the children n had when Stop was called
    aborted,         \* Root.aborted is closed
    abortRequested,  \* Root.abortRequested is closed (the once of requestAbort has run)
    abortCtx,        \* Root.abortCtx
    tokenErr,        \* tokenErr[t]: ctx.Err() of token t
    abortPc,         \* abortPc[a]: where the a-th Abort call is
    abortTok,        \* abortTok[a]: the ctx argument of the a-th Abort call, once it is past the first select
    abortRes,        \* abortRes[a]: what the a-th Abort call returned
    rootDone,        \* rootDone[a]: the channel wait(&r.wg) made for the a-th Abort call
    panicked         \* "none", or the runtime panic that ended the program

vars == <<parent, dAborted, wg, once, wait, chans, held, calls, aborted, abortRequested,
          abortCtx, tokenErr, abortPc, abortTok, abortRes, rootDone,
          panicked>>

nodeVars == <<parent, dAborted, wg, once, wait, chans, held, calls>>
abortVars == <<aborted, abortCtx, abortPc, abortTok, abortRes, rootDone>>

\* ------------------------------------------------------------------ helpers
Created(n) == parent[n] # NotCreated
CreatedNodes == {n \in Nodes : Created(n)}
Children(o) == {n \in Nodes : parent[n] = o}
Running == panicked = "none"
\* a channel Wait() returned on n is closed
Fired(n) == \E i \in held[n] : chans[n][i] = "closed"
\* an Abort call has begun
AbortBegun == \E a \in AbortCalls : abortPc[a] # "idle"

\* ------------------------------------------------------------------ New
Init ==
    /\ parent = [n \in Nodes |-> NotCreated]
    /\ dAborted = [n \in Nodes |-> "none"]
    /\ wg = [o \in Owners |-> 0]
    /\ once = [n \in Nodes |-> FALSE]
    /\ wait = [n \in Nodes |-> 0]
    /\ chans = [n \in Nodes |-> <<>>]
    /\ held = [n \in Nodes |-> {}]
    /\ calls = [n \in Nodes |-> [k \in Slots |-> IdleCall]]
    /\ aborted = FALSE
    /\ abortRequested = FALSE
    /\ abortCtx = NilCtx
    /\ tokenErr = [t \in Tokens |-> NoErr]
    /\ abortPc = [a \in AbortCalls |-> "idle"]
    /\ abortTok = [a \in AbortCalls |-> NilCtx]
    /\ abortRes = [a \in AbortCalls |-> NoResult]
    /\ rootDone = [a \in AbortCalls |-> "none"]
    /\ panicked = "none"

\* dependent() without wg.Add(1)
dependentNoAdd(o, n, ab) ==
    /\ Running
    /\ ~Created(n)
    /\ \A m \in Nodes : m < n => Created(m)
    /\ parent' = [parent EXCEPT ![n] = o]
    /\ dAborted' = [dAborted EXCEPT ![n] = ab]
    /\ UNCHANGED <<wg, once, wait, chans, held, calls,
                   abortRequested, tokenErr, panicked>>
    /\ UNCHANGED abortVars

\* ------------------------------------------------------------------ dependent
\* dependent(): wg.Add(1) on the owner's WaitGroup and a fresh Dependency whose
\* stop closure points at that WaitGroup and whose aborted field is the channel
\* handed in.  Ids are handed out in creation order.
dependent(o, n, ab) ==
    /\ Running
    /\ ~Created(n)
    /\ \A m \in Nodes : m < n => Created(m)
    /\ wg' = [wg EXCEPT ![o] = @ + 1]
    /\ parent' = [parent EXCEPT ![n] = o]
    /\ dAborted' = [dAborted EXCEPT ![n] = ab]
    /\ UNCHANGED <<once, wait, chans, held, calls,
                   abortRequested, tokenErr, panicked>>
    /\ UNCHANGED abortVars

\* a Root.Dependent that hands in r.abortRequested where r.aborted belongs
RootDependentMiswired(n) == dependent(RootId, n, "abortRequested")

\* (*Root).Dependent: hands in r.aborted
RootDependent(n) == dependent(RootId, n, "aborted")

\* (*Dependency).Dependent: hands in d.aborted
Dependent(d, n) == Created(d) /\ dependent(d, n, dAborted[d])

\* ------------------------------------------------------------------ Wait
\* Wait without the d.wait == nil test: every call makes a channel of its own
WaitBodyFresh(n) ==
    /\ Len(chans[n]) < MaxChans
    /\ wait' = [wait EXCEPT ![n] = Len(chans[n]) + 1]
    /\ chans' = [chans EXCEPT ![n] = Append(@, "open")]

\* the body of (*Dependency).Wait under d.m: build the channel once, return d.wait
WaitBody(n) ==
    IF wait[n] = 0
    THEN /\ Len(chans[n]) < MaxChans
         /\ wait' = [wait EXCEPT ![n] = Len(chans[n]) + 1]
         /\ chans' = [chans EXCEPT ![n] = Append(@, "open")]
    ELSE UNCHANGED <<wait, chans>>

\* a caller keeps the channel d.Wait() returned
Wait(n) ==
    /\ Running
    /\ Created(n)
    /\ WaitBody(n)
    /\ held' = [held EXCEPT ![n] = @ \cup {wait'[n]}]
    /\ UNCHANGED <<parent, dAborted, wg, once, calls,
                   abortRequested, tokenErr, panicked>>
    /\ UNCHANGED abortVars

\* the goroutine of wait(&d.wg): wg.Wait() returns at counter zero, then close(done)
Waiter(n, i) ==
    /\ Running
    /\ i \in 1..Len(chans[n])
    /\ chans[n][i] = "open"
    /\ wg[n] = 0
    /\ chans' = [chans EXCEPT ![n][i] = "closed"]
    /\ UNCHANGED <<parent, dAborted, wg, once, wait, held, calls,
                   abortRequested, tokenErr, panicked>>
    /\ UNCHANGED abortVars

\* ------------------------------------------------------------------ stop
\* requestAbort without the sync.Once: close(r) on every request
requestAbortNoOnce ==
    IF abortRequested
    THEN /\ panicked' = "closeOfClosedAbortRequested"
         /\ UNCHANGED abortRequested
    ELSE /\ abortRequested' = TRUE
         /\ UNCHANGED panicked

\* requestAbort: once.Do(close(r)), so r is closed by the first request only
requestAbort ==
    /\ abortRequested' = TRUE
    /\ UNCHANGED panicked

\* the test without the dereference: abortOnError != nil
IndicatesErrorNoDeref(arg) == arg # "nilPtr"

\* abortOnError != nil && *abortOnError != nil
IndicatesError(arg) == arg # "nilPtr" /\ Deref(arg) # NoErr

\* the first statement of Stop and StopImmediately
RequestOnError(arg) ==
    IF IndicatesError(arg) THEN requestAbort ELSE UNCHANGED <<abortRequested, panicked>>

\* wg.Done(): a counter that would go negative panics
Done(o) ==
    IF wg[o] = 0
    THEN /\ panicked' = "negativeWaitGroup"
         /\ UNCHANGED wg
    ELSE /\ wg' = [wg EXCEPT ![o] = @ - 1]
         /\ UNCHANGED panicked

\* d.stop() without the sync.Once: wg.Done() on every call
stopNoOnce(n) ==
    /\ once' = [once EXCEPT ![n] = TRUE]
    /\ Done(parent[n])

\* a d.stop() whose closure holds the Root's WaitGroup whatever the parent is
stopAtRoot(n) ==
    IF once[n]
    THEN UNCHANGED <<once, wg, panicked>>
    ELSE /\ once' = [once EXCEPT ![n] = TRUE]
         /\ Done(RootId)

\* d.stop(): once.Do(wg.Done) on the parent's WaitGroup
stop(n) ==
    IF once[n]
    THEN UNCHANGED <<once, wg, panicked>>
    ELSE /\ once' = [once EXCEPT ![n] = TRUE]
         /\ Done(parent[n])

\* Stop is called: the abort request, then d.Wait() is evaluated and the call
\* blocks on the channel it got
StopCall(n, k, arg) ==
    /\ Running
    /\ Created(n)
    /\ calls[n][k].pc = "idle"
    /\ \A j \in Slots : j < k => calls[n][j].pc # "idle"
    /\ RequestOnError(arg)
    /\ WaitBody(n)
    /\ held' = [held EXCEPT ![n] = @ \cup {wait'[n]}]
    /\ calls' = [calls EXCEPT ![n][k] = [pc |-> "stopBlocked", ch |-> wait'[n], kids |-> Children(n)]]
    /\ UNCHANGED <<parent, dAborted, wg, once, tokenErr>>
    /\ UNCHANGED abortVars

\* a Stop that returns after the receive without d.stop()
StopReturnsOnly(n, k) ==
    /\ Running
    /\ calls[n][k].pc = "stopBlocked"
    /\ chans[n][calls[n][k].ch] = "closed"
    /\ calls' = [calls EXCEPT ![n][k] = ReturnedCall]
    /\ UNCHANGED <<parent, dAborted, wg, once, wait, chans, held,
                   abortRequested, tokenErr, panicked>>
    /\ UNCHANGED abortVars

\* a Stop that also receives from d.Aborted() before d.stop()
StopNotifyAfterAbort(n, k) ==
    /\ Running
    /\ calls[n][k].pc = "stopBlocked"
    /\ chans[n][calls[n][k].ch] = "closed"
    /\ aborted
    /\ stop(n)
    /\ calls' = [calls EXCEPT ![n][k] = ReturnedCall]
    /\ UNCHANGED <<parent, dAborted, wait, chans, held,
                   abortRequested, tokenErr>>
    /\ UNCHANGED abortVars

\* the receive from d.Wait() returns, then d.stop()
StopNotify(n, k) ==
    /\ Running
    /\ calls[n][k].pc = "stopBlocked"
    /\ chans[n][calls[n][k].ch] = "closed"
    /\ stop(n)
    /\ calls' = [calls EXCEPT ![n][k] = ReturnedCall]
    /\ UNCHANGED <<parent, dAborted, wait, chans, held,
                   abortRequested, tokenErr>>
    /\ UNCHANGED abortVars

\* StopImmediately is called: the abort request
StopImmediatelyCall(n, k, arg) ==
    /\ Running
    /\ Created(n)
    /\ calls[n][k].pc = "idle"
    /\ \A j \in Slots : j < k => calls[n][j].pc # "idle"
    /\ RequestOnError(arg)
    /\ calls' = [calls EXCEPT ![n][k] = [pc |-> "immediateEntered", ch |-> 0, kids |-> {}]]
    /\ UNCHANGED <<parent, dAborted, wg, once, wait, chans, held, tokenErr>>
    /\ UNCHANGED abortVars

\* StopImmediately that receives from d.Wait() first, as Stop does
StopImmediatelyWaits(n, k) ==
    /\ Running
    /\ calls[n][k].pc = "immediateEntered"
    /\ wait[n] # 0
    /\ chans[n][wait[n]] = "closed"
    /\ stop(n)
    /\ calls' = [calls EXCEPT ![n][k] = ReturnedCall]
    /\ UNCHANGED <<parent, dAborted, wait, chans, held,
                   abortRequested, tokenErr>>
    /\ UNCHANGED abortVars

\* a StopImmediately that returns without d.stop()
StopImmediatelyReturnsOnly(n, k) ==
    /\ Running
    /\ calls[n][k].pc = "immediateEntered"
    /\ calls' = [calls EXCEPT ![n][k] = ReturnedCall]
    /\ UNCHANGED <<parent, dAborted, wg, once, wait, chans, held,
                   abortRequested, tokenErr, panicked>>
    /\ UNCHANGED abortVars

\* StopImmediately goes straight to d.stop()
StopImmediatelyNotify(n, k) ==
    /\ Running
    /\ calls[n][k].pc = "immediateEntered"
    /\ stop(n)
    /\ calls' = [calls EXCEPT ![n][k] = ReturnedCall]
    /\ UNCHANGED <<parent, dAborted, wait, chans, held,
                   abortRequested, tokenErr>>
    /\ UNCHANGED abortVars

\* ------------------------------------------------------------------ readers
\* whether a receive from the channel would return: it is closed
Closed(ch) ==
    CASE ch = "aborted" -> aborted
      [] ch = "abortRequested" -> abortRequested
      [] OTHER -> FALSE

\* (*Root).Aborted
RootAborted == Closed("aborted")

\* an Aborted() that is also ready once abort has been requested
AbortedOrRequested(n) == Closed(dAborted[n]) \/ abortRequested

\* (*Dependency).Aborted: whether d.aborted is closed
Aborted(n) == Closed(dAborted[n])

\* (*Dependency).AbortContext: *d.abortCtx under the read lock; d.abortCtx is
\* &r.abortCtx for every node
AbortContext(n) == abortCtx

\* (*Root).AbortRequested
AbortRequested == abortRequested

\* ------------------------------------------------------------------ Abort
\* Abort without its first select
AbortCallUnchecked(a, t) ==
    /\ Running
    /\ abortPc[a] = "idle"
    /\ \A b \in AbortCalls : b < a => abortPc[b] # "idle"
    /\ abortPc' = [abortPc EXCEPT ![a] = "checked"]
    /\ abortTok' = [abortTok EXCEPT ![a] = t]
    /\ UNCHANGED <<aborted, abortCtx, abortRes, rootDone>>
    /\ UNCHANGED nodeVars
    /\ UNCHANGED <<abortRequested, tokenErr, panicked>>

\* Abort that stores its ctx before the first select
AbortCallStoresFirst(a, t) ==
    /\ Running
    /\ abortPc[a] = "idle"
    /\ \A b \in AbortCalls : b < a => abortPc[b] # "idle"
    /\ abortCtx' = t
    /\ IF aborted
       THEN /\ abortPc' = [abortPc EXCEPT ![a] = "returned"]
            /\ abortRes' = [abortRes EXCEPT ![a] = ResAlreadyAborted]
            /\ UNCHANGED abortTok
       ELSE /\ abortPc' = [abortPc EXCEPT ![a] = "checked"]
            /\ abortTok' = [abortTok EXCEPT ![a] = t]
            /\ UNCHANGED abortRes
    /\ UNCHANGED <<aborted, rootDone>>
    /\ UNCHANGED nodeVars
    /\ UNCHANGED <<abortRequested, tokenErr, panicked>>

\* the first select of Abort: has r.aborted been closed?
AbortCall(a, t) ==
    /\ Running
    /\ abortPc[a] = "idle"
    /\ \A b \in AbortCalls : b < a => abortPc[b] # "idle"
    /\ IF aborted
       THEN /\ abortPc' = [abortPc EXCEPT ![a] = "returned"]
            /\ abortRes' = [abortRes EXCEPT ![a] = ResAlreadyAborted]
            /\ UNCHANGED abortTok
       ELSE /\ abortPc' = [abortPc EXCEPT ![a] = "checked"]
            /\ abortTok' = [abortTok EXCEPT ![a] = t]
            /\ UNCHANGED abortRes
    /\ UNCHANGED <<aborted, abortCtx, rootDone>>
    /\ UNCHANGED nodeVars
    /\ UNCHANGED <<abortRequested, tokenErr, panicked>>

\* close(r.aborted): closing a closed channel panics
AbortClose(a) ==
    /\ Running
    /\ abortPc[a] = "checked"
    /\ IF aborted
       THEN /\ panicked' = "closeOfClosedChannel"
            /\ UNCHANGED <<aborted, abortPc>>
       ELSE /\ aborted' = TRUE
            /\ abortPc' = [abortPc EXCEPT ![a] = "closed"]
            /\ UNCHANGED panicked
    /\ UNCHANGED <<abortCtx, abortTok, abortRes, rootDone>>
    /\ UNCHANGED nodeVars
    /\ UNCHANGED <<abortRequested, tokenErr>>

\* r.abortCtx = ctx under the write lock
AbortStore(a) ==
    /\ Running
    /\ abortPc[a] = "closed"
    /\ abortCtx' = abortTok[a]
    /\ abortPc' = [abortPc EXCEPT ![a] = "stored"]
    /\ UNCHANGED <<aborted, abortTok, abortRes, rootDone>>
    /\ UNCHANGED nodeVars
    /\ UNCHANGED <<abortRequested, tokenErr, panicked>>

\* the second select is entered: wait(&r.wg) makes its channel and goroutine
AbortSelect(a) ==
    /\ Running
    /\ abortPc[a] = "stored"
    /\ rootDone' = [rootDone EXCEPT ![a] = "open"]
    /\ abortPc' = [abortPc EXCEPT ![a] = "select"]
    /\ UNCHANGED <<aborted, abortCtx, abortTok, abortRes>>
    /\ UNCHANGED nodeVars
    /\ UNCHANGED <<abortRequested, tokenErr, panicked>>

\* the goroutine of wait(&r.wg)
RootWaiter(a) ==
    /\ Running
    /\ rootDone[a] = "open"
    /\ wg[RootId] = 0
    /\ rootDone' = [rootDone EXCEPT ![a] = "closed"]
    /\ UNCHANGED <<aborted, abortCtx, abortPc, abortTok, abortRes>>
    /\ UNCHANGED nodeVars
    /\ UNCHANGED <<abortRequested, tokenErr, panicked>>

\* a second select that takes the timeout case without the receive from ctx.Done()
AbortTimeoutEarly(a) ==
    /\ Running
    /\ abortPc[a] = "select"
    /\ abortRes' = [abortRes EXCEPT ![a] = ResTimeout(tokenErr[abortTok[a]])]
    /\ abortPc' = [abortPc EXCEPT ![a] = "returned"]
    /\ UNCHANGED <<aborted, abortCtx, abortTok, rootDone>>
    /\ UNCHANGED nodeVars
    /\ UNCHANGED <<abortRequested, tokenErr, panicked>>

\* a timeout case that also zeroes the Root's counter, giving up on the workers
AbortTimeoutForcesDone(a) ==
    /\ Running
    /\ abortPc[a] = "select"
    /\ tokenErr[abortTok[a]] # NoErr
    /\ abortRes' = [abortRes EXCEPT ![a] = ResTimeout(tokenErr[abortTok[a]])]
    /\ abortPc' = [abortPc EXCEPT ![a] = "returned"]
    /\ wg' = [wg EXCEPT ![RootId] = 0]
    /\ UNCHANGED <<aborted, abortCtx, abortTok, rootDone>>
    /\ UNCHANGED <<parent, dAborted, once, wait, chans, held, calls>>
    /\ UNCHANGED <<abortRequested, tokenErr, panicked>>

\* case <-ctx.Done()
AbortTimeout(a) ==
    /\ Running
    /\ abortPc[a] = "select"
    /\ tokenErr[abortTok[a]] # NoErr
    /\ abortRes' = [abortRes EXCEPT ![a] = ResTimeout(tokenErr[abortTok[a]])]
    /\ abortPc' = [abortPc EXCEPT ![a] = "returned"]
    /\ UNCHANGED <<aborted, abortCtx, abortTok, rootDone>>
    /\ UNCHANGED nodeVars
    /\ UNCHANGED <<abortRequested, tokenErr, panicked>>

\* a second select that takes the nil case without the receive
AbortNilEarly(a) ==
    /\ Running
    /\ abortPc[a] = "select"
    /\ abortRes' = [abortRes EXCEPT ![a] = ResNil]
    /\ abortPc' = [abortPc EXCEPT ![a] = "returned"]
    /\ UNCHANGED <<aborted, abortCtx, abortTok, rootDone>>
    /\ UNCHANGED nodeVars
    /\ UNCHANGED <<abortRequested, tokenErr, panicked>>

\* case <-wait(&r.wg)
AbortNil(a) ==
    /\ Running
    /\ abortPc[a] = "select"
    /\ rootDone[a] = "closed"
    /\ abortRes' = [abortRes EXCEPT ![a] = ResNil]
    /\ abortPc' = [abortPc EXCEPT ![a] = "returned"]
    /\ UNCHANGED <<aborted, abortCtx, abortTok, rootDone>>
    /\ UNCHANGED nodeVars
    /\ UNCHANGED <<abortRequested, tokenErr, panicked>>

\* the token of an Abort call in progress is done: its deadline passes or its
\* cancel func is called (Abort reads ctx.Done() only in its second select, so a
\* token that was done before the call is the same as one done right after it began)
Cancel(t) ==
    /\ Running
    /\ tokenErr[t] = NoErr
    /\ \E a \in AbortCalls : abortTok[a] = t /\ abortPc[a] \notin {"idle", "returned"}
    /\ tokenErr' = [tokenErr EXCEPT ![t] = TokenCause(t)]
    /\ UNCHANGED <<parent, dAborted, wg, once, wait, chans, held, calls>>
    /\ UNCHANGED <<aborted, abortCtx, abortPc, abortTok, abortRes, rootDone>>
    /\ UNCHANGED <<abortRequested, panicked>>

\* ------------------------------------------------------------------ specification
\* the steps of the nodes and their workers
NextNode ==
    \/ \E n \in Nodes : RootDependent(n)
    \/ \E d \in Nodes, n \in Nodes : Dependent(d, n)
    \/ \E n \in Nodes : Wait(n)
    \/ \E n \in Nodes, i \in 1..MaxChans : Waiter(n, i)
    \/ \E n \in Nodes, k \in Slots, arg \in ErrArgs : StopCall(n, k, arg)
    \/ \E n \in Nodes, k \in Slots : StopNotify(n, k)
    \/ \E n \in Nodes, k \in Slots, arg \in ErrArgs : StopImmediatelyCall(n, k, arg)
    \/ \E n \in Nodes, k \in Slots : StopImmediatelyNotify(n, k)

\* the steps of the Abort calls
NextAbort ==
    \/ \E a \in AbortCalls, t \in Tokens : AbortCall(a, t)
    \/ \E a \in AbortCalls : AbortClose(a)
    \/ \E a \in AbortCalls : AbortStore(a)
    \/ \E a \in AbortCalls : AbortSelect(a)
    \/ \E a \in AbortCalls : RootWaiter(a)
    \/ \E a \in AbortCalls : AbortTimeout(a)
    \/ \E a \in AbortCalls : AbortNil(a)

Next ==
    \/ NextNode
    \/ NextAbort
    \/ \E t \in Tokens : Cancel(t)

Spec == Init /\ [][Next]_vars

\* The clients that shut down gracefully: every node is created before Abort is
\* called, a worker calls Stop only after it has seen Aborted() closed, and no
\* worker calls StopImmediately.
NextGraceful ==
    \/ \E n \in Nodes : ~AbortBegun /\ RootDependent(n)
    \/ \E d \in Nodes, n \in Nodes : ~AbortBegun /\ Dependent(d, n)
    \/ \E n \in Nodes : Wait(n)
    \/ \E n \in Nodes, i \in 1..MaxChans : Waiter(n, i)
    \/ \E n \in Nodes, k \in Slots, arg \in ErrArgs : Aborted(n) /\ StopCall(n, k, arg)
    \/ \E n \in Nodes, k \in Slots : StopNotify(n, k)
    \/ NextAbort
    \/ \E t \in Tokens : Cancel(t)

SpecGraceful == Init /\ [][NextGraceful]_vars

\* The runs in which a token is done only while its Abort call is in progress,
\* a root-level dependent has not completed and the channel of the call's
\* wait(&r.wg) is not closed: the deadline passes before the tree has finished.
PendingFor(t) ==
    /\ wg[RootId] > 0
    /\ \A a \in AbortCalls : abortTok[a] = t => rootDone[a] # "closed"

NextExpiry ==
    \/ NextNode
    \/ NextAbort
    \/ \E t \in Tokens : PendingFor(t) /\ Cancel(t)

SpecExpiry == Init /\ [][NextExpiry]_vars

\* The runs in which a token is done only after the tree has finished: the Root
\* has dependents and every one of them has completed.
TreeFinished == Children(RootId) # {} /\ wg[RootId] = 0

NextLateCancel ==
    \/ NextNode
    \/ NextAbort
    \/ \E t \in Tokens : TreeFinished /\ Cancel(t)

SpecLateCancel == Init /\ [][NextLateCancel]_vars

\* The runs in which no token is ever done and the Abort calls do not race for
\* the first select: a later call begins only once r.aborted is closed.
NextLive ==
    \/ NextNode
    \/ \E a \in AbortCalls, t \in Tokens : (a = 1 \/ aborted) /\ AbortCall(a, t)
    \/ \E a \in AbortCalls : AbortClose(a)
    \/ \E a \in AbortCalls : AbortStore(a)
    \/ \E a \in AbortCalls : AbortSelect(a)
    \/ \E a \in AbortCalls : RootWaiter(a)
    \/ \E a \in AbortCalls : AbortNil(a)

\* the worker of n makes its first Stop or StopImmediately call
FirstStop(n) ==
    \E arg \in ErrArgs : StopCall(n, 1, arg) \/ StopImmediatelyCall(n, 1, arg)

\* Fair scheduling: a goroutine that can take its next step eventually takes
\* it, and the worker of every node eventually calls Stop or StopImmediately.
FairLive ==
    /\ \A n \in Nodes : WF_vars(FirstStop(n))
    /\ \A n \in Nodes, k \in Slots : WF_vars(StopNotify(n, k))
    /\ \A n \in Nodes, k \in Slots : WF_vars(StopImmediatelyNotify(n, k))
    /\ \A n \in Nodes, i \in 1..MaxChans : WF_vars(Waiter(n, i))
    /\ \A a \in AbortCalls : WF_vars(AbortClose(a))
    /\ \A a \in AbortCalls : WF_vars(AbortStore(a))
    /\ \A a \in AbortCalls : WF_vars(AbortSelect(a))
    /\ \A a \in AbortCalls : WF_vars(RootWaiter(a))
    /\ \A a \in AbortCalls : WF_vars(AbortNil(a))

SpecLive == Init /\ [][NextLive]_vars /\ FairLive

\* The runs in which the workers outlive the deadline: no node notifies its
\* parent before an Abort call has returned Timeout.
TimedOut == \E a \in AbortCalls : abortRes[a].kind = "timeout"

NextOutlive ==
    \/ \E n \in Nodes : RootDependent(n)
    \/ \E d \in Nodes, n \in Nodes : Dependent(d, n)
    \/ \E n \in Nodes : Wait(n)
    \/ \E n \in Nodes, i \in 1..MaxChans : Waiter(n, i)
    \/ \E n \in Nodes, k \in Slots, arg \in ErrArgs : StopCall(n, k, arg)
    \/ \E n \in Nodes, k \in Slots : TimedOut /\ StopNotify(n, k)
    \/ \E n \in Nodes, k \in Slots, arg \in ErrArgs : StopImmediatelyCall(n, k, arg)
    \/ \E n \in Nodes, k \in Slots : TimedOut /\ StopImmediatelyNotify(n, k)
    \/ NextAbort
    \/ \E t \in Tokens : Cancel(t)

SpecOutlive == Init /\ [][NextOutlive]_vars

\* The runs in which the Abort calls do not race for the first select, with
\* fair scheduling of the goroutines of wait(&d.wg) and of the Stop calls.
NextOrderly ==
    \/ NextNode
    \/ \E a \in AbortCalls, t \in Tokens : (a = 1 \/ aborted) /\ AbortCall(a, t)
    \/ \E a \in AbortCalls : AbortClose(a)
    \/ \E a \in AbortCalls : AbortStore(a)
    \/ \E a \in AbortCalls : AbortSelect(a)
    \/ \E a \in AbortCalls : RootWaiter(a)
    \/ \E a \in AbortCalls : AbortTimeout(a)
    \/ \E a \in AbortCalls : AbortNil(a)
    \/ \E t \in Tokens : Cancel(t)

FairStop ==
    /\ \A n \in Nodes, i \in 1..MaxChans : WF_vars(Waiter(n, i))
    /\ \A n \in Nodes, k \in Slots : WF_vars(StopNotify(n, k))

SpecStopFair == Init /\ [][NextOrderly]_vars /\ FairStop

\* ------------------------------------------------------------------ claims
\* the Abort calls that closed r.aborted
Firers == {a \in AbortCalls : abortPc[a] \in {"closed", "stored", "select"}
                               \/ abortRes[a].kind \in {"nil", "timeout"}}
Stopped(n) == once[n]

\* C1: among graceful clients (SpecGraceful), Abort has returned nil only in
\* states where every created node, at every depth, has completed its stop
\* protocol.
C1_NilMeansAllStopped ==
    (\E a \in AbortCalls : abortRes[a] = ResNil)
        => \A n \in CreatedNodes : Stopped(n)

\* C2: in every state where a node sees Aborted() closed, AbortContext() on that
\* node is the token given to the Abort call that closed it, never the zero value.
C2_ContextSetWhenAborted ==
    \A n \in CreatedNodes :
        Aborted(n) => /\ AbortContext(n) # NilCtx
                      /\ \E a \in Firers : AbortContext(n) = abortTok[a]

\* C3 (as stated): in SpecExpiry, where a token is done only while a root-level
\* dependent has not completed, the Abort call that was given a done token
\* returns Timeout wrapping the token's cause and does not return nil.
C3_ExpiryForcesTimeout ==
    \A a \in Firers :
        (tokenErr[abortTok[a]] # NoErr /\ abortPc[a] = "returned")
            => abortRes[a] = ResTimeout(TokenCause(abortTok[a]))

\* C3 (amended): Abort returns nil only after the channel of its own
\* wait(&r.wg) was closed, so a return before that is never nil but Timeout; and
\* a Timeout result is returned only for a token that is done and wraps that
\* token's cause.
C3_TimeoutUnlessDone ==
    \A a \in AbortCalls :
        /\ abortRes[a] = ResNil => rootDone[a] = "closed"
        /\ abortRes[a].kind = "timeout"
               => /\ tokenErr[abortTok[a]] # NoErr
                  /\ abortRes[a].wraps = TokenCause(abortTok[a])
        /\ (abortPc[a] = "returned" /\ rootDone[a] = "open")
               => abortRes[a] = ResTimeout(TokenCause(abortTok[a]))

\* an Abort call returned Timeout, wrapping DeadlineExceeded, while a root-level
\* dependent has still not completed
C3_Witness ==
    \E a \in AbortCalls :
        /\ abortRes[a] = ResTimeout("DeadlineExceeded")
        /\ rootDone[a] = "open"
        /\ \E n \in Children(RootId) : ~Stopped(n)

\* C4: an Abort call that begins when r.aborted is already closed returns
\* AlreadyAborted in that same step (it does not block), leaves r.aborted closed
\* and the abort context as it was, and does not panic; the result is never nil.
C4_AlreadyAborted ==
    [][\A a \in AbortCalls :
          (abortPc[a] = "idle" /\ abortPc'[a] # "idle" /\ aborted)
              => /\ abortPc'[a] = "returned"
                 /\ abortRes'[a] = ResAlreadyAborted
                 /\ abortCtx' = abortCtx
                 /\ aborted'
                 /\ panicked' = "none"]_vars

\* a second Abort call has returned AlreadyAborted while the first one is still
\* blocked in its second select
C4_Witness ==
    \E a, b \in AbortCalls :
        /\ abortPc[a] = "select"
        /\ abortRes[b] = ResAlreadyAborted
        /\ abortCtx = abortTok[a]

\* C5: the step in which a Stop call decrements the parent's counter is taken
\* only when every child the node had when Stop was called has completed its
\* stop protocol.
C5_StopAfterChildren ==
    [][\A n \in Nodes, k \in Slots :
          (calls[n][k].pc = "stopBlocked" /\ calls'[n][k].pc = "returned"
             /\ ~once[n] /\ once'[n])
              => \A c \in calls[n][k].kids : Stopped(c)]_vars

\* C6: a StopImmediately call that has begun can always take its next step
\* (it never blocks), and that step decrements the parent's counter whatever
\* the node's own counter is.
C6_ImmediateNeverWaits ==
    [][\A n \in Nodes, k \in Slots :
          (Running /\ calls[n][k].pc = "immediateEntered")
              => /\ ENABLED StopImmediatelyNotify(n, k)
                 /\ calls'[n][k].pc = "returned"
                       => /\ once'[n]
                          /\ ~once[n] => wg'[parent[n]] = wg[parent[n]] - 1
                          /\ wg'[n] = wg[n]]_vars

\* Abort has returned nil while a child of a node that finished with
\* StopImmediately (no Stop or Wait was ever called on it) has not completed
C6_Witness ==
    /\ \E a \in AbortCalls : abortRes[a] = ResNil
    /\ \E n \in Nodes :
          /\ Stopped(n)
          /\ wait[n] = 0
          /\ \E c \in Children(n) : ~Stopped(c)

\* the children of an owner that have not completed their stop protocol
Unstopped(o) == {c \in Children(o) : ~Stopped(c)}

CallBegins(arg) ==
    \E n \in Nodes, k \in Slots :
        StopCall(n, k, arg) \/ StopImmediatelyCall(n, k, arg)

\* C8: the step that begins a Stop or StopImmediately call with a pointer to a
\* non-nil error closes abortRequested and neither decrements a counter nor
\* marks the node stopped; the step that begins one with a nil pointer or a
\* pointer to a nil error leaves abortRequested as it was; and abortRequested
\* changes in no other step.
C8_RequestBeforeWait ==
    [][/\ CallBegins("ptrToErr") => (abortRequested' /\ wg' = wg /\ once' = once)
       /\ CallBegins("nilPtr") => abortRequested' = abortRequested
       /\ CallBegins("ptrToNil") => abortRequested' = abortRequested
       /\ abortRequested' # abortRequested => CallBegins("ptrToErr")]_vars

\* the only call made so far is a Stop that is blocked on the node's unstopped
\* child, and abortRequested is already closed
C8_Witness ==
    \E n \in Nodes :
        /\ calls[n][1].pc = "stopBlocked"
        /\ chans[n][calls[n][1].ch] = "open"
        /\ Unstopped(n) # {}
        /\ ~Stopped(n)
        /\ AbortRequested
        /\ \A m \in Nodes, k \in Slots : <<m, k>> # <<n, 1>> => calls[m][k].pc = "idle"

\* C9: whenever a channel returned by Wait() on a node is closed, every child of
\* that node created so far has completed and the node's counter is zero.
C9_FiredMeansNoChildLeft ==
    \A n \in Nodes :
        Fired(n) => (wg[n] = 0 /\ \A c \in Children(n) : Stopped(c))

\* C10: every call of Wait() on one node, from Stop or from a worker, returned
\* the one channel in d.wait, and wait(&d.wg) made at most one channel (and
\* goroutine) for that node.
C10_OneWaitChannel ==
    \A n \in Nodes :
        /\ Len(chans[n]) <= 1
        /\ Cardinality(held[n]) <= 1
        /\ held[n] \subseteq {wait[n]}
        /\ \A k \in Slots : calls[n][k].pc = "stopBlocked" => calls[n][k].ch = wait[n]

\* two Stop calls are blocked on the same node, on its one open channel
C10_Witness ==
    \E n \in Nodes :
        /\ \A k \in Slots : calls[n][k].pc = "stopBlocked"
        /\ held[n] = {1}
        /\ chans[n] = <<"open">>

\* C11: however two or more Abort calls interleave, none of them panics: the
\* losing calls find r.aborted closed and return AlreadyAborted.
C11_ConcurrentAbortSafe ==
    panicked # "closeOfClosedChannel"

\* C12: once abortRequested is closed it stays closed, and every step that
\* begins a call with a pointer to an error, whether or not abortRequested was
\* closed already, leaves it closed and does not panic.
C12_RequestFiresOnce ==
    [][/\ abortRequested => abortRequested'
       /\ CallBegins("ptrToErr") => (abortRequested' /\ panicked' = "none")]_vars

\* abortRequested is closed, an Abort call has returned, and a node at depth
\* two whose first call has begun can make one more request
C12_Witness ==
    /\ abortRequested
    /\ \E a \in AbortCalls : abortPc[a] = "returned"
    /\ \E n \in Nodes :
          /\ parent[n] \in Nodes
          /\ calls[n][1].pc # "idle"
          /\ ENABLED StopCall(n, 2, "ptrToErr")

\* C13: a step that closes abortRequested leaves Aborted() of the Root and of
\* every node, the abort context and every counter as they were; r.aborted is
\* closed only by the close(r.aborted) step of an Abort call; and before the
\* first Abort call Aborted() is not closed for the Root or any node.
C13_RequestDoesNotAbort ==
    /\ [][(abortRequested' # abortRequested
              => (/\ RootAborted' = RootAborted
                  /\ \A n \in CreatedNodes : Aborted(n)' = Aborted(n)
                  /\ abortCtx' = abortCtx
                  /\ wg' = wg))
           /\ (aborted' # aborted => \E a \in AbortCalls : AbortClose(a))]_vars
    /\ [](~AbortBegun => (~RootAborted /\ \A n \in CreatedNodes : ~Aborted(n)))

\* abort has been requested by a Stop call that is blocked on a child, and no
\* Abort call has begun
C13_Witness ==
    /\ abortRequested
    /\ ~AbortBegun
    /\ ~RootAborted
    /\ \E n \in Nodes : wg[n] > 0 /\ calls[n][1].pc = "stopBlocked" /\ ~Aborted(n)

\* C14: in every state Aborted() is closed for a created node exactly when it
\* is closed for the Root, hence for every other node, whenever the node was
\* created.
C14_OneAbortSignal ==
    \A n \in CreatedNodes : Aborted(n) <=> RootAborted

\* Abort returned nil on the empty tree; the two nodes, at depth one and two,
\* were created after that and see Aborted() closed
C14_Witness ==
    /\ \E a \in AbortCalls : abortRes[a] = ResNil
    /\ parent[1] = RootId /\ ~Stopped(1)
    /\ parent[2] = 1
    /\ Aborted(1) /\ Aborted(2)

C16_AbortEventuallyNil ==
    \A a \in AbortCalls : (abortPc[a] = "checked") ~> (abortRes[a] = ResNil)

\* Abort has returned nil on a tree of depth two whose inner node was waited
\* for, with both nodes stopped
C16_Witness ==
    /\ \E a \in AbortCalls : abortRes[a] = ResNil
    /\ parent[1] = RootId /\ parent[2] = 1
    /\ Stopped(1) /\ Stopped(2)
    /\ wait[1] # 0

\* C17: a Stop call returns from its receive only in a step in which every
\* child the node had when Stop was called has stopped (it blocks for as long
\* as one of them has not).
C17_StopBlocksOnChildren ==
    [][\A n \in Nodes, k \in Slots :
          (calls[n][k].pc = "stopBlocked" /\ calls'[n][k].pc = "returned")
              => calls[n][k].kids \cap Unstopped(n) = {}]_vars

\* C18: the step that creates a node adds exactly one to its parent's counter
\* and leaves every other counter, both signals and the abort context as they
\* were; no call has begun and nothing has been decremented for a node that
\* does not exist yet.
C18_DependentAddsOne ==
    /\ [][\A n \in Nodes :
              (~Created(n) /\ Created(n)')
                  => (/\ wg' = [wg EXCEPT ![parent'[n]] = @ + 1]
                      /\ aborted' = aborted
                      /\ abortRequested' = abortRequested
                      /\ abortCtx' = abortCtx)]_vars
    /\ [](\A n \in Nodes :
              ~Created(n) => (~once[n] /\ wait[n] = 0
                               /\ \A k \in Slots : calls[n][k].pc = "idle"))

\* a node was just created under another node, after both signals had fired:
\* its parent's counter is one and the Root's counter is still one
C18_Witness ==
    /\ parent[1] = RootId /\ parent[2] = 1
    /\ wg[1] = 1 /\ wg[RootId] = 1
    /\ RootAborted /\ AbortRequested /\ abortCtx # NilCtx
    /\ \A k \in Slots : calls[2][k].pc = "idle"

\* C19: the counter of the Root and of every node is the number of its
\* children minus the number of its children on which a Stop or
\* StopImmediately call has returned, and it is not negative.
C19_CounterIsPending ==
    \A o \in Owners :
        /\ wg[o] >= 0
        /\ wg[o] = Cardinality(Children(o))
                      - Cardinality({c \in Children(o) :
                                       \E k \in Slots : calls[c][k].pc = "returned"})

\* the Root has two children, a call has returned on one of them only, and the
\* Root's counter is one
C19_Witness ==
    /\ Children(RootId) = {1, 2}
    /\ calls[1][1].pc = "returned"
    /\ \A k \in Slots : calls[2][k].pc # "returned"
    /\ wg[RootId] = 1

\* C20: r.abortCtx is written only by the store step of an Abort call that
\* closed r.aborted, only while it holds the zero value, and then holds that
\* call's token; once written, AbortContext() of every node keeps returning
\* the same token; before the first Abort call it returns the zero value.
C20_ContextWrittenOnce ==
    /\ [][/\ (\A a \in AbortCalls :
                 AbortStore(a) => (a \in Firers /\ abortCtx = NilCtx /\ abortCtx' = abortTok[a]))
           /\ (abortCtx' # abortCtx => \E b \in AbortCalls : AbortStore(b))
           /\ (abortCtx # NilCtx
                  => \A n \in CreatedNodes : AbortContext(n)' = AbortContext(n))]_vars
    /\ [](~AbortBegun => \A n \in CreatedNodes : AbortContext(n) = NilCtx)

\* the Abort call that wrote the context returned Timeout, a later call with
\* any token returned AlreadyAborted, and a node still reads the first token
C20_Witness ==
    \E a, b \in AbortCalls :
        /\ abortRes[a].kind = "timeout"
        /\ abortRes[b] = ResAlreadyAborted
        /\ \E n \in CreatedNodes : AbortContext(n) = abortTok[a]

\* C21: the step in which Abort returns Timeout changes no field of any node
\* and no counter and does not panic; r.aborted, once closed, stays closed;
\* and after the return a node that has not stopped still completes as
\* before: its d.stop() takes one off its parent's counter without a panic,
\* and a pending StopImmediately can always take that step.
C21_TimeoutKillsNothing ==
    [][/\ (\A a \in AbortCalls :
              (abortPc[a] = "select" /\ abortRes'[a].kind = "timeout")
                  => (nodeVars' = nodeVars /\ RootAborted' /\ panicked' = "none"))
       /\ (RootAborted => RootAborted')
       /\ (TimedOut /\ Running
              => \A n \in Nodes :
                   /\ (~Stopped(n) /\ Stopped(n)')
                         => (wg' = [wg EXCEPT ![parent[n]] = @ - 1] /\ panicked' = "none")
                   /\ \A k \in Slots : calls[n][k].pc = "immediateEntered"
                         => ENABLED StopImmediatelyNotify(n, k))]_vars

\* Abort returned Timeout while no node had notified its parent; since then
\* both nodes have stopped, the inner one through Stop, every counter is zero
\* and nothing panicked
C21_Witness ==
    /\ TimedOut
    /\ Running
    /\ parent[1] = RootId /\ parent[2] = 1
    /\ Stopped(1) /\ Stopped(2)
    /\ wait[1] # 0
    /\ \A o \in Owners : wg[o] = 0

\* C22: the step in which a node completes its stop protocol takes one off the
\* counter of its direct parent, which was positive, and changes no other
\* counter (not the Root's nor another ancestor's, also when the parent has
\* already finished with StopImmediately); a counter goes down in no other
\* step; and no counter goes negative (wg.Done never panics).
C22_StopTouchesParentOnly ==
    /\ [][/\ (\A n \in Nodes :
                 (~Stopped(n) /\ Stopped(n)')
                     => (/\ wg[parent[n]] > 0
                         /\ wg' = [wg EXCEPT ![parent[n]] = @ - 1]
                         /\ panicked' = "none"))
           /\ (\A o \in Owners :
                 wg'[o] < wg[o]
                     => \E c \in Children(o) : ~Stopped(c) /\ Stopped(c)')]_vars
    /\ [](panicked # "negativeWaitGroup")

\* node 1 finished with StopImmediately (no Stop or Wait was ever called on
\* it) and the Root's counter is zero; its abandoned child is about to
\* complete its own StopImmediately
C22_Witness ==
    /\ parent[1] = RootId /\ parent[2] = 1
    /\ Stopped(1) /\ wait[1] = 0
    /\ wg[RootId] = 0 /\ wg[1] = 1
    /\ ~Stopped(2)
    /\ calls[2][1].pc = "immediateEntered"
    /\ ENABLED StopImmediatelyNotify(2, 1)

\* C23: a Stop call on a node whose counter is zero (it never had a child, or
\* all of them have stopped) is never blocked, whether or not Abort has been
\* called: either the goroutine of wait(&d.wg) can close its channel or the
\* call can return; and under fair scheduling a Stop call on a node all of
\* whose children have stopped returns, unless a new child is created first.
C23_StopReturns ==
    /\ [](\A n \in Nodes, k \in Slots :
              (calls[n][k].pc = "stopBlocked" /\ wg[n] = 0)
                  => IF chans[n][calls[n][k].ch] = "closed"
                     THEN ENABLED StopNotify(n, k)
                     ELSE ENABLED Waiter(n, calls[n][k].ch))
    /\ \A n \in Nodes, k \in Slots :
          (calls[n][k].pc = "stopBlocked" /\ Unstopped(n) = {})
              ~> (calls[n][k].pc = "returned" \/ Unstopped(n) # {})

\* no Abort call has begun, and a Stop call on a node that never had a child
\* has received from its closed channel and is about to return
C23_Witness ==
    /\ ~AbortBegun
    /\ \E n \in Nodes :
          /\ Children(n) = {}
          /\ calls[n][1].pc = "stopBlocked"
          /\ chans[n][calls[n][1].ch] = "closed"
          /\ ~Stopped(n)
          /\ ENABLED StopNotify(n, 1)

====
